---- MODULE Spec2Model ----
(***************************************************************************)
(* Model of @enalmada/start-secure: the CSP header builders                *)
(*   buildCspHeader            (src/internal/csp-builder.ts)               *)
(*   generateSecurityHeaders   (src/internal/generator.ts, merger.ts,      *)
(*                              defaults.ts)                               *)
(* the handler wrapper                                                     *)
(*   createSecureHandler       (src/handler.ts)                            *)
(* and the request middleware                                              *)
(*   createCspMiddleware       (src/middleware.ts)                         *)
(*                                                                         *)
(* A JavaScript string is a sequence of atoms.  The atom " " is one        *)
(* whitespace character, the atom ";" one semicolon, every other atom is a *)
(* run of characters holding neither.  Adjacent atoms are concatenated, so *)
(* <<"'nonce-", "N1", "'">> is the string 'nonce-N1'.                       *)
(***************************************************************************)
EXTENDS Integers, Sequences, FiniteSets, TLC

VARIABLES call, rules, nonce, isDev, headerConfig, pc, i, directives, merged, result,
          app, wrapped, events, generated, context, served, uuid, base64, warnings

\* the state of a call of buildCspHeader or generateSecurityHeaders
cvars == <<call, rules, nonce, isDev, headerConfig, pc, i, directives, merged, result>>

\* the state of a request to a handler wrapped by createSecureHandler
hvars == <<app, wrapped, events>>

\* the state of the requests that pass through the middleware of createCspMiddleware
\* or the handler of createSecureHandler, one after another
mvars == <<generated, context, served>>

\* the state of a call of generateNonce and of the validation of its nonce
nvars == <<uuid, base64, warnings>>

vars == <<cvars, hvars, mvars, nvars>>

(***************************************************************************)
(* Bounds of the explored inputs                                           *)
(***************************************************************************)
MaxRules == 2

(***************************************************************************)
(* Strings                                                                 *)
(***************************************************************************)
SP == " "
SEMI == ";"
EmptyString == <<>>

None == <<"'none'">>
Self == <<"'self'">>
UnsafeEval == <<"'unsafe-eval'">>
UnsafeInline == <<"'unsafe-inline'">>
StrictDynamic == <<"'strict-dynamic'">>

\* Array.prototype.includes on an array of strings
Includes(arr, v) == \E k \in 1..Len(arr) : arr[k] = v

RECURSIVE SplitFrom(_, _, _, _)
SplitFrom(s, k, cur, acc) ==
    IF k > Len(s) THEN Append(acc, cur)
    ELSE IF s[k] = SP
         THEN IF k > 1 /\ s[k - 1] = SP
              THEN SplitFrom(s, k + 1, cur, acc)
              ELSE SplitFrom(s, k + 1, <<>>, Append(acc, cur))
         ELSE SplitFrom(s, k + 1, Append(cur, s[k]), acc)

\* String.prototype.split(/\s+/): the pieces between the whitespace runs; a
\* leading or trailing run leaves an empty piece, "" gives [""]
SplitWs(s) == SplitFrom(s, 1, <<>>, <<>>)

RECURSIVE TrimStart(_)
TrimStart(s) == IF s # <<>> /\ Head(s) = SP THEN TrimStart(Tail(s)) ELSE s

RECURSIVE TrimEnd(_)
TrimEnd(s) ==
    IF s # <<>> /\ s[Len(s)] = SP THEN TrimEnd(SubSeq(s, 1, Len(s) - 1)) ELSE s

\* String.prototype.trim
Trim(s) == TrimEnd(TrimStart(s))

RECURSIVE Join(_, _)
\* Array.prototype.join(sep)
Join(arr, sep) ==
    IF arr = <<>> THEN <<>>
    ELSE IF Len(arr) = 1 THEN arr[1]
    ELSE arr[1] \o sep \o Join(Tail(arr), sep)

(***************************************************************************)
(* Rule model (src/internal/types.ts): a rule is the sequence of its own   *)
(* fields, in Object.entries order; a field value is a string, an array of *)
(* strings, a boolean or undefined.                                        *)
(***************************************************************************)
StringValue(s) == [t |-> "string", s |-> s, a |-> <<>>, b |-> FALSE]
ArrayValue(a) == [t |-> "array", s |-> <<>>, a |-> a, b |-> FALSE]
BooleanValue(b) == [t |-> "boolean", s |-> <<>>, a |-> <<>>, b |-> b]
UndefinedValue == [t |-> "undefined", s |-> <<>>, a |-> <<>>, b |-> FALSE]

Field(k, v) == [key |-> k, value |-> v]

\* The nonce argument: a string, or undefined (generateSecurityHeaders only)
NoNonce == [given |-> FALSE, s |-> <<>>]
SomeNonce(s) == [given |-> TRUE, s |-> s]

\* `nonce ? a : b`: undefined and "" are falsy
NonceTruthy(n) == n.given /\ n.s # <<>>

\* `'nonce-${nonce}'`
NonceToken(s) == <<"'nonce-">> \o s \o <<"'">>

(***************************************************************************)
(* Directive tables: a JavaScript object with string keys, kept as the     *)
(* sequence of its entries in insertion order.                             *)
(***************************************************************************)
HasKey(d, k) == \E n \in 1..Len(d) : d[n].key = k

Get(d, k) == d[CHOOSE n \in 1..Len(d) : d[n].key = k].values

\* an assignment that moves an existing key to the end
Put_Reinserted(d, k, v) ==
    Append(SelectSeq(d, LAMBDA e : e.key # k), [key |-> k, values |-> v])

\* d[k] = v: a new key goes last, an existing key keeps its place
Put(d, k, v) ==
    IF HasKey(d, k)
    THEN [n \in 1..Len(d) |-> IF d[n].key = k THEN [key |-> k, values |-> v] ELSE d[n]]
    ELSE Append(d, [key |-> k, values |-> v])

\* the loop pushing every value, present or not
AddAll_NoDedup(arr, values) == arr \o values

RECURSIVE AddAll(_, _)
\* for (const v of values) if (!arr.includes(v)) arr.push(v)
\* (also Set.prototype.add, the Set kept in insertion order)
AddAll(arr, values) ==
    IF values = <<>> THEN arr
    ELSE AddAll(IF Includes(arr, Head(values)) THEN arr ELSE Append(arr, Head(values)),
                Tail(values))

IsNotNone(v) == v # None

IsNonBlank(v) == v # <<>> /\ Trim(v) # <<>>

IsNonEmpty(v) == v # <<>>

(***************************************************************************)
(* buildCspHeader (src/internal/csp-builder.ts)                            *)
(***************************************************************************)
\* the development origins of an earlier release
DevWebSockets_Http(dev) ==
    IF dev THEN << <<"ws://localhost:*">>, <<"http://localhost:*">> >> ELSE <<>>

DevWebSockets(dev) == IF dev THEN << <<"ws://localhost:*">>, <<"wss://localhost:*">> >> ELSE <<>>

DevEval(dev) == IF dev THEN <<UnsafeEval>> ELSE <<>>

\* the `directives` literal
BaseDirectives(n, dev) ==
    << [key |-> "default-src", values |-> <<Self>>],
       [key |-> "base-uri", values |-> <<Self>>],
       [key |-> "child-src", values |-> <<None>>],
       [key |-> "connect-src", values |-> <<Self>> \o DevWebSockets(dev)],
       [key |-> "font-src", values |-> <<Self>>],
       [key |-> "form-action", values |-> <<Self>>],
       [key |-> "frame-ancestors", values |-> <<None>>],
       [key |-> "frame-src", values |-> <<None>>],
       [key |-> "img-src", values |-> <<Self, <<"blob:">>, <<"data:">> >>],
       [key |-> "manifest-src", values |-> <<Self>>],
       [key |-> "media-src", values |-> <<Self>>],
       [key |-> "object-src", values |-> <<None>>],
       [key |-> "script-src", values |-> <<NonceToken(n), StrictDynamic>> \o DevEval(dev)],
       [key |-> "script-src-elem", values |-> <<NonceToken(n), StrictDynamic>>],
       [key |-> "style-src", values |-> <<Self, UnsafeInline>>],
       [key |-> "style-src-elem", values |-> <<Self, UnsafeInline>>],
       [key |-> "style-src-attr", values |-> <<UnsafeInline>>],
       [key |-> "worker-src", values |-> <<Self, <<"blob:">> >>] >>

\* Case 1 with the keyword matched in any case
DropMixedNone_AnyCase(values) ==
    IF Len(values) > 1 /\ (Includes(values, None) \/ Includes(values, <<"'None'">>))
    THEN SelectSeq(values, LAMBDA v : v \notin {None, <<"'None'">>})
    ELSE values

\* Case 1 left out
DropMixedNone_Kept(values) == values

\* Case 1: 'none' given together with other values is dropped from the rule's values
DropMixedNone(values) ==
    IF Len(values) > 1 /\ Includes(values, None)
    THEN SelectSeq(values, IsNotNone)
    ELSE values

\* Case 2: the rule gives only 'none'
IsOnlyNone(values) == Len(values) = 1 /\ values[1] = None

\* Case 3: the directive holds 'none' and the rule adds other values
StripNone(current, values) ==
    IF Len(values) > 0 /\ Includes(current, None)
    THEN SelectSeq(current, IsNotNone)
    ELSE current

\* the inner loop with the rule's values put in place of the directive's
MergeValues_Replace(d, key, raw) ==
    LET values == DropMixedNone(SelectSeq(raw, IsNonBlank))
    IN  Put(d, key, values)

\* the body of the inner loop for a string or array value, the directive present
MergeValues(d, key, raw) ==
    LET values == DropMixedNone(SelectSeq(raw, IsNonBlank))
    IN  IF IsOnlyNone(values)
        THEN Put(d, key, <<None>>)
        ELSE Put(d, key, AddAll(StripNone(Get(d, key), values), values))

\* One iteration of the inner loop: [ok, d]; ok is FALSE when the iteration
\* throws (values.filter on a boolean or on undefined is a TypeError)
MergeField(d, f) ==
    IF f.key \in {"description", "source"} THEN [ok |-> TRUE, d |-> d]
    ELSE LET d1 == IF HasKey(d, f.key) THEN d ELSE Put(d, f.key, <<>>)
         IN  CASE f.value.t = "string" ->
                    [ok |-> TRUE, d |-> MergeValues(d1, f.key, SplitWs(f.value.s))]
               [] f.value.t = "array" ->
                    [ok |-> TRUE, d |-> MergeValues(d1, f.key, f.value.a)]
               [] OTHER -> [ok |-> FALSE, d |-> d1]

RECURSIVE MergeRuleFields(_, _)
\* for (const [key, value] of Object.entries(rule))
MergeRuleFields(st, rule) ==
    IF rule = <<>> \/ ~st.ok THEN st
    ELSE MergeRuleFields(MergeField(st.d, Head(rule)), Tail(rule))

MergeRule(d, rule) == MergeRuleFields([ok |-> TRUE, d |-> d], rule)

\* the copy loop without its `includes` test
CopySources_NoDedup(d, base, granular) ==
    IF HasKey(d, base) /\ HasKey(d, granular)
    THEN LET Copied(source) == ~(granular = "script-src-elem" /\ source = UnsafeEval)
         IN  Put(d, granular, Get(d, granular) \o SelectSeq(Get(d, base), Copied))
    ELSE d

\* the sources of `base` that the copy loop pushes to `granular`
CopySources(d, base, granular) ==
    IF HasKey(d, base) /\ HasKey(d, granular)
    THEN LET Copied(source) == ~(granular = "script-src-elem" /\ source = UnsafeEval)
         IN  Put(d, granular, AddAll(Get(d, granular), SelectSeq(Get(d, base), Copied)))
    ELSE d

\* directivesToCopy without the script pair
CopyToGranular_StyleOnly(d) == CopySources(d, "style-src", "style-src-elem")

\* directivesToCopy, in order
CopyToGranular(d) ==
    CopySources(CopySources(d, "style-src", "style-src-elem"), "script-src", "script-src-elem")

\* `${key} ${values.join(" ")}`
Segment(e) == <<e.key, SP>> \o Join(e.values, <<SP>>)

\* the segments joined, with a semicolon after the last one too
CspString_TrailingSemi(d) == Join([n \in 1..Len(d) |-> Segment(d[n])], <<SEMI, SP>>) \o <<SEMI>>

\* Object.entries(directives).map(...).join("; ")
CspString(d) == Join([n \in 1..Len(d) |-> Segment(d[n])], <<SEMI, SP>>)

RECURSIVE MergeRules(_, _)
\* for (const rule of rules)
MergeRules(st, rs) ==
    IF rs = <<>> \/ ~st.ok THEN st
    ELSE MergeRules(MergeRule(st.d, Head(rs)), Tail(rs))

\* buildCspHeader(rules, nonce, isDev) as one function: [ok, csp]
BuildCspHeader(rs, n, dev) ==
    LET st == MergeRules([ok |-> TRUE, d |-> BaseDirectives(n, dev)], rs)
    IN  [ok |-> st.ok, csp |-> IF st.ok THEN CspString(CopyToGranular(st.d)) ELSE <<>>]

(***************************************************************************)
(* generateSecurityHeaders (src/internal/generator.ts, merger.ts,          *)
(* defaults.ts)                                                            *)
(***************************************************************************)
\* the defaults with the nonce added to 'unsafe-inline' instead of replacing it
DefaultCspDirectives_NonceAdded(dev, n) ==
    << [key |-> "default-src", values |-> <<Self>>],
       [key |-> "base-uri", values |-> <<Self>>],
       [key |-> "child-src", values |-> <<None>>],
       [key |-> "connect-src", values |-> <<Self>> \o DevWebSockets(dev)],
       [key |-> "font-src", values |-> <<Self>>],
       [key |-> "form-action", values |-> <<Self>>],
       [key |-> "frame-ancestors", values |-> <<None>>],
       [key |-> "frame-src", values |-> <<None>>],
       [key |-> "img-src", values |-> <<Self, <<"blob:">>, <<"data:">> >>],
       [key |-> "manifest-src", values |-> <<Self>>],
       [key |-> "media-src", values |-> <<Self>>],
       [key |-> "object-src", values |-> <<None>>],
       [key |-> "script-src",
        values |-> <<Self, UnsafeInline>>
                   \o (IF NonceTruthy(n) THEN <<NonceToken(n.s), StrictDynamic>> ELSE <<>>)
                   \o DevEval(dev)],
       [key |-> "style-src",
        values |-> <<Self, UnsafeInline>>
                   \o (IF NonceTruthy(n) THEN <<NonceToken(n.s)>> ELSE <<>>)],
       [key |-> "worker-src", values |-> <<Self, <<"blob:">> >>] >>

\* getDefaultCspDirectives(isDev, nonce)
DefaultCspDirectives(dev, n) ==
    << [key |-> "default-src", values |-> <<Self>>],
       [key |-> "base-uri", values |-> <<Self>>],
       [key |-> "child-src", values |-> <<None>>],
       [key |-> "connect-src", values |-> <<Self>> \o DevWebSockets(dev)],
       [key |-> "font-src", values |-> <<Self>>],
       [key |-> "form-action", values |-> <<Self>>],
       [key |-> "frame-ancestors", values |-> <<None>>],
       [key |-> "frame-src", values |-> <<None>>],
       [key |-> "img-src", values |-> <<Self, <<"blob:">>, <<"data:">> >>],
       [key |-> "manifest-src", values |-> <<Self>>],
       [key |-> "media-src", values |-> <<Self>>],
       [key |-> "object-src", values |-> <<None>>],
       [key |-> "script-src",
        values |-> IF NonceTruthy(n)
                   THEN <<NonceToken(n.s), StrictDynamic>> \o DevEval(dev)
                   ELSE <<Self, UnsafeInline>> \o DevEval(dev)],
       [key |-> "style-src",
        values |-> <<Self>> \o (IF NonceTruthy(n) THEN <<NonceToken(n.s)>> ELSE <<UnsafeInline>>)],
       [key |-> "worker-src", values |-> <<Self, <<"blob:">> >>] >>

DIRECTIVES_WITHOUT_SELF ==
    {"report-uri", "report-to", "sandbox", "upgrade-insecure-requests",
     "block-all-mixed-content", "require-trusted-types-for", "trusted-types"}

\* value.map((v) => v.trim())
TrimEach(a) == [n \in 1..Len(a) |-> Trim(a[n])]

\* the `values` a field of a rule gives in mergeCspRules (true gives [""])
CspRuleValues(v) ==
    CASE v.t = "boolean" -> << <<>> >>
      [] v.t = "array" -> SelectSeq(TrimEach(v.a), IsNonEmpty)
      [] v.s = <<>> -> << <<>> >>
      [] OTHER -> SelectSeq(SplitWs(v.s), IsNonEmpty)

\* One iteration of the inner loop of mergeCspRules
MergeCspField(m, f) ==
    IF f.key \in {"description", "source"} \/ f.value.t = "undefined" THEN m
    ELSE LET m1 == IF HasKey(m, f.key) THEN m ELSE Put(m, f.key, <<>>)
         IN  IF f.value.t = "boolean" /\ ~f.value.b THEN m1
             ELSE Put(m1, f.key, AddAll(Get(m1, f.key), CspRuleValues(f.value)))

RECURSIVE MergeCspRule(_, _)
\* One iteration of the outer loop of mergeCspRules
MergeCspRule(m, rule) ==
    IF rule = <<>> THEN m ELSE MergeCspRule(MergeCspField(m, Head(rule)), Tail(rule))

RECURSIVE MergeUserDirectives_AlwaysSelf(_, _)
\* the second loop with 'self' for every new directive
MergeUserDirectives_AlwaysSelf(md, user) ==
    IF user = <<>> THEN md
    ELSE LET e == Head(user)
             md1 == IF HasKey(md, e.key) THEN md ELSE Put(md, e.key, <<Self>>)
         IN  IF Len(e.values) = 0
             THEN MergeUserDirectives_AlwaysSelf(md, Tail(user))
             ELSE MergeUserDirectives_AlwaysSelf(
                      Put(md1, e.key, AddAll(Get(md1, e.key), e.values)), Tail(user))

RECURSIVE MergeUserDirectives(_, _)
\* The second loop of mergeDirectivesWithDefaults, over the entries of userDirectives
MergeUserDirectives(md, user) ==
    IF user = <<>> THEN md
    ELSE LET e == Head(user)
             md1 == IF HasKey(md, e.key) THEN md
                    ELSE Put(md, e.key,
                             IF e.key \in DIRECTIVES_WITHOUT_SELF THEN <<>> ELSE <<Self>>)
         IN  IF Len(e.values) = 0
             THEN MergeUserDirectives(md, Tail(user))
             ELSE MergeUserDirectives(Put(md1, e.key, AddAll(Get(md1, e.key), e.values)),
                                      Tail(user))

\* the callback without its valueless case
CspEntry_Plain(e) == <<e.key, SP>> \o Join(e.values, <<SP>>)

\* The callback of the map in generateSecurityHeaders
CspEntry(e) ==
    IF Len(e.values) = 0 \/ (Len(e.values) = 1 /\ e.values[1] = <<>>)
    THEN <<e.key>>
    ELSE LET filteredValues == SelectSeq(e.values, IsNonEmpty)
         IN  IF Len(filteredValues) > 0
             THEN <<e.key, SP>> \o Join(filteredValues, <<SP>>)
             ELSE <<e.key>>

\* cspValue
CspValue(md) == Join([n \in 1..Len(md) |-> CspEntry(md[n])], <<SEMI, SP>>)

defaultSecurityHeadersConfig ==
    [h \in {"X-Frame-Options", "X-Content-Type-Options", "Referrer-Policy",
            "X-XSS-Protection", "Strict-Transport-Security", "Permissions-Policy"} |->
        CASE h = "X-Frame-Options" -> <<"DENY">>
          [] h = "X-Content-Type-Options" -> <<"nosniff">>
          [] h = "Referrer-Policy" -> <<"strict-origin-when-cross-origin">>
          [] h = "X-XSS-Protection" -> <<"1", SEMI, SP, "mode=block">>
          [] h = "Strict-Transport-Security" ->
                <<"max-age=31536000", SEMI, SP, "includeSubDomains", SEMI, SP, "preload">>
          [] h = "Permissions-Policy" ->
                <<"accelerometer=(),", SP, "camera=(),", SP, "geolocation=(),", SP,
                  "gyroscope=(),", SP, "magnetometer=(),", SP, "microphone=(),", SP,
                  "payment=(),", SP, "usb=(),", SP, "interest-cohort=(),", SP,
                  "browsing-topics=()">>]

\* headerConfig: undefined, or a partial map (an entry set to undefined is an absent one)
NoHeaderConfig == [given |-> FALSE, cfg |-> <<>>]
SomeHeaderConfig(cfg) == [given |-> TRUE, cfg |-> cfg]

\* finalConfig: the defaults, overridden by the defined entries of headerConfig
FinalConfig(hc) ==
    [h \in DOMAIN defaultSecurityHeadersConfig \cup (IF hc.given THEN DOMAIN hc.cfg ELSE {}) |->
        IF hc.given /\ h \in DOMAIN hc.cfg THEN hc.cfg[h] ELSE defaultSecurityHeadersConfig[h]]

\* the header map with x-nonce for every nonce that is given, the empty one too
SecurityHeaders_GivenNonce(cspValue, n, hc) ==
    LET finalConfig == FinalConfig(hc)
        names == {"Content-Security-Policy"} \cup DOMAIN defaultSecurityHeadersConfig
                 \cup (IF hc.given /\ "X-Powered-By" \in DOMAIN hc.cfg THEN {"X-Powered-By"} ELSE {})
                 \cup (IF n.given THEN {"x-nonce"} ELSE {})
    IN  [h \in names |->
            CASE h = "Content-Security-Policy" -> cspValue
              [] h = "X-Powered-By" -> hc.cfg[h]
              [] h = "x-nonce" -> n.s
              [] OTHER -> finalConfig[h]]

\* The `headers` object that generateSecurityHeaders returns
SecurityHeaders(cspValue, n, hc) ==
    LET finalConfig == FinalConfig(hc)
        names == {"Content-Security-Policy"} \cup DOMAIN defaultSecurityHeadersConfig
                 \cup (IF hc.given /\ "X-Powered-By" \in DOMAIN hc.cfg THEN {"X-Powered-By"} ELSE {})
                 \cup (IF NonceTruthy(n) THEN {"x-nonce"} ELSE {})
    IN  [h \in names |->
            CASE h = "Content-Security-Policy" -> cspValue
              [] h = "X-Powered-By" -> hc.cfg[h]
              [] h = "x-nonce" -> n.s
              [] OTHER -> finalConfig[h]]

RECURSIVE MergeCspRules(_, _)
\* mergeCspRules(rules), from the table m
MergeCspRules(m, rs) ==
    IF rs = <<>> THEN m ELSE MergeCspRules(MergeCspRule(m, Head(rs)), Tail(rs))

\* generateSecurityHeaders(rules, {isDev, nonce, headerConfig}) as one function
GenerateSecurityHeaders(rs, n, dev, hc) ==
    SecurityHeaders(CspValue(MergeUserDirectives(DefaultCspDirectives(dev, n),
                                                 MergeCspRules(<<>>, rs))),
                    n, hc)

(***************************************************************************)
(* The explored inputs                                                     *)
(***************************************************************************)
X == <<"https://x">>
Y == <<"https://y">>
N1 == <<"N1">>

SourceKeys == {"frame-src", "connect-src", "script-src", "script-src-elem", "style-src"}

SourceValues ==
    { StringValue(None),                                      \* "'none'"
      StringValue(X),                                         \* "https://x"
      StringValue(<<SP, "'none'", SP, SP, "https://x">>),     \* " 'none'  https://x"
      ArrayValue(<<UnsafeEval>>),                             \* ["'unsafe-eval'"]
      ArrayValue(<<None, Y>>) }                               \* ["'none'", "https://y"]

\* a keyword in another case, and list elements with whitespace around them
OddFields ==
    {Field(k, StringValue(<<"'None'", SP, "https://x">>)) : k \in {"frame-src", "connect-src"}}
        \cup {Field("connect-src", StringValue(<<"'None'">>))}
        \cup {Field(k, ArrayValue(<< <<"'none'", SP>>, <<SP, "https://x">>, <<"'unsafe-eval'", SP>> >>)) :
                 k \in {"frame-src", "script-src"}}

\* the directive names of CspRule
KnownDirectives ==
    {"base-uri", "child-src", "connect-src", "default-src", "font-src", "form-action",
     "frame-ancestors", "frame-src", "img-src", "manifest-src", "media-src", "object-src",
     "script-src", "script-src-attr", "script-src-elem", "style-src", "style-src-attr",
     "style-src-elem", "worker-src", "sandbox", "navigate-to", "report-to", "report-uri",
     "require-trusted-types-for", "trusted-types", "upgrade-insecure-requests",
     "block-all-mixed-content"}

BooleanKeys == {"upgrade-insecure-requests"}

BooleanValues == {BooleanValue(TRUE), BooleanValue(FALSE), StringValue(EmptyString)}

Description == Field("description", StringValue(<<"youtube">>))

Fields ==
    {Field(k, v) : k \in SourceKeys, v \in SourceValues}
        \cup {Field(k, v) : k \in BooleanKeys, v \in BooleanValues}

\* a rule with one directive, and one rule that carries a description
Rules ==
    {<<f>> : f \in Fields \cup OddFields}
        \cup {<<Description, Field("frame-src", StringValue(X))>>}
        \cup {<<Field("source", StringValue(<<"docs">>)), Field("not-a-directive", StringValue(X))>>}
        \cup {<<Field("report-uri", StringValue(<<"/csp-report">>))>>}

RECURSIVE RuleLists(_)
RuleLists(n) ==
    IF n = 0 THEN {<<>>}
    ELSE RuleLists(n - 1) \cup {Append(l, r) : l \in {m \in RuleLists(n - 1) : Len(m) = n - 1}, r \in Rules}

HeaderOverrides ==
    SomeHeaderConfig([h \in {"X-Frame-Options", "X-Powered-By"} |->
                         IF h = "X-Frame-Options" THEN <<"SAMEORIGIN">> ELSE <<"start">>])

\* buildCspHeader(rules, nonce, isDev) and generateSecurityHeaders(rules, options)
Calls ==
    {[call |-> "buildCspHeader", nonce |-> SomeNonce(N1), isDev |-> b,
      headerConfig |-> NoHeaderConfig] : b \in BOOLEAN}
    \cup {[call |-> "generateSecurityHeaders", nonce |-> NoNonce, isDev |-> b,
           headerConfig |-> NoHeaderConfig] : b \in BOOLEAN}
    \cup {[call |-> "generateSecurityHeaders", nonce |-> SomeNonce(N1), isDev |-> b,
           headerConfig |-> HeaderOverrides] : b \in BOOLEAN}
    \cup {[call |-> "generateSecurityHeaders", nonce |-> SomeNonce(EmptyString), isDev |-> FALSE,
           headerConfig |-> NoHeaderConfig]}

(***************************************************************************)
(* The state machine: one call, stepped through its loops                  *)
(***************************************************************************)
Pending == [status |-> "pending", csp |-> <<>>, headers |-> <<>>]

NoHeaders == [h \in {} |-> <<>>]

NoResponse == [status |-> 0, body |-> "", headers |-> NoHeaders]

\* next() has not been called
NoContext == [given |-> FALSE, nonce |-> <<>>]

\* no request is being handled
NoApp == [outcome |-> "none", error |-> "", response |-> NoResponse]
NoPromise == [state |-> "none", error |-> "", response |-> NoResponse]

Init ==
    /\ \E c \in Calls :
          /\ call = c.call
          /\ nonce = c.nonce
          /\ isDev = c.isDev
          /\ headerConfig = c.headerConfig
    /\ rules \in RuleLists(MaxRules)
    /\ pc = "start"
    /\ i = 1
    /\ directives = <<>>
    /\ merged = <<>>
    /\ result = Pending
    /\ app = NoApp
    /\ wrapped = NoPromise
    /\ events = <<>>
    /\ generated = <<>>
    /\ context = NoContext
    /\ served = <<>>
    /\ uuid = <<>>
    /\ base64 = <<>>
    /\ warnings = <<>>

\* the base directives kept from one call to the next
BuildBase_Cached ==
    /\ call = "buildCspHeader" /\ pc = "start"
    /\ directives' = IF directives = <<>> THEN BaseDirectives(nonce.s, isDev) ELSE directives
    /\ i' = 1
    /\ pc' = "merge"
    /\ UNCHANGED <<call, rules, nonce, isDev, headerConfig, merged, result>>
    /\ UNCHANGED hvars
    /\ UNCHANGED mvars
    /\ UNCHANGED nvars

\* csp-builder.ts 21-69: the base directives, built anew by every call
BuildBase ==
    /\ call = "buildCspHeader" /\ pc = "start"
    /\ directives' = BaseDirectives(nonce.s, isDev)
    /\ i' = 1
    /\ pc' = "merge"
    /\ UNCHANGED <<call, rules, nonce, isDev, headerConfig, merged, result>>
    /\ UNCHANGED hvars
    /\ UNCHANGED mvars
    /\ UNCHANGED nvars

\* csp-builder.ts 72-114: one rule of the merge loop; a TypeError ends the call
BuildMergeRule ==
    /\ call = "buildCspHeader" /\ pc = "merge" /\ i <= Len(rules)
    /\ LET st == MergeRule(directives, rules[i])
       IN  /\ directives' = st.d
           /\ IF st.ok
              THEN /\ i' = i + 1
                   /\ UNCHANGED <<pc, result>>
              ELSE /\ pc' = "threw"
                   /\ result' = [Pending EXCEPT !.status = "threw"]
                   /\ UNCHANGED i
    /\ UNCHANGED <<call, rules, nonce, isDev, headerConfig, merged>>
    /\ UNCHANGED hvars
    /\ UNCHANGED mvars
    /\ UNCHANGED nvars

\* csp-builder.ts 123-140: copy base sources to the granular directives
BuildCopy ==
    /\ call = "buildCspHeader" /\ pc = "merge" /\ i > Len(rules)
    /\ directives' = CopyToGranular(directives)
    /\ pc' = "serialize"
    /\ UNCHANGED <<call, rules, nonce, isDev, headerConfig, i, merged, result>>
    /\ UNCHANGED hvars
    /\ UNCHANGED mvars
    /\ UNCHANGED nvars

\* csp-builder.ts 143-147: build and return the string
BuildReturn ==
    /\ call = "buildCspHeader" /\ pc = "serialize"
    /\ result' = [status |-> "returned", csp |-> CspString(directives), headers |-> <<>>]
    /\ pc' = "done"
    /\ UNCHANGED <<call, rules, nonce, isDev, headerConfig, i, directives, merged>>
    /\ UNCHANGED hvars
    /\ UNCHANGED mvars
    /\ UNCHANGED nvars

\* generator.ts 21, merger.ts 58, 111-117: the default directives, copied into
\* mergedDirectives; `merged` starts empty
GenDefaults ==
    /\ call = "generateSecurityHeaders" /\ pc = "start"
    /\ directives' = DefaultCspDirectives(isDev, nonce)
    /\ merged' = <<>>
    /\ i' = 1
    /\ pc' = "rules"
    /\ UNCHANGED <<call, rules, nonce, isDev, headerConfig, result>>
    /\ UNCHANGED hvars
    /\ UNCHANGED mvars
    /\ UNCHANGED nvars

\* merger.ts 60-93: one rule of mergeCspRules
GenMergeCspRule ==
    /\ call = "generateSecurityHeaders" /\ pc = "rules" /\ i <= Len(rules)
    /\ merged' = MergeCspRule(merged, rules[i])
    /\ i' = i + 1
    /\ UNCHANGED <<call, rules, nonce, isDev, headerConfig, pc, directives, result>>
    /\ UNCHANGED hvars
    /\ UNCHANGED mvars
    /\ UNCHANGED nvars

\* merger.ts 121-139: fold the user directives into the defaults
GenMergeDefaults ==
    /\ call = "generateSecurityHeaders" /\ pc = "rules" /\ i > Len(rules)
    /\ directives' = MergeUserDirectives(directives, merged)
    /\ pc' = "headers"
    /\ UNCHANGED <<call, rules, nonce, isDev, headerConfig, i, merged, result>>
    /\ UNCHANGED hvars
    /\ UNCHANGED mvars
    /\ UNCHANGED nvars

\* generator.ts 27-83: serialize the policy and return the header map
GenReturn ==
    /\ call = "generateSecurityHeaders" /\ pc = "headers"
    /\ LET cspValue == CspValue(directives)
       IN  result' = [status |-> "returned", csp |-> cspValue,
                      headers |-> SecurityHeaders(cspValue, nonce, headerConfig)]
    /\ pc' = "done"
    /\ UNCHANGED <<call, rules, nonce, isDev, headerConfig, i, directives, merged>>
    /\ UNCHANGED hvars
    /\ UNCHANGED mvars
    /\ UNCHANGED nvars

Next ==
    \/ BuildBase
    \/ BuildMergeRule
    \/ BuildCopy
    \/ BuildReturn
    \/ GenDefaults
    \/ GenMergeCspRule
    \/ GenMergeDefaults
    \/ GenReturn

Spec == Init /\ [][Next]_vars

(***************************************************************************)
(* A sequence of calls.  Both functions are synchronous, so calls follow   *)
(* one another; the locals of a finished call (`directives`, `merged`, the *)
(* loop position) are left as they are, and the next call has to build its *)
(* own.                                                                    *)
(***************************************************************************)
MaxSeqRules == 1

N2 == <<"N2">>

SeqRules ==
    { <<Field("script-src", StringValue(X))>>,
      <<Field("frame-src", StringValue(None))>>,
      <<Field("upgrade-insecure-requests", BooleanValue(TRUE))>> }

RECURSIVE SeqRuleLists(_)
SeqRuleLists(n) ==
    IF n = 0 THEN {<<>>}
    ELSE SeqRuleLists(n - 1)
             \cup {Append(l, r) : l \in {m \in SeqRuleLists(n - 1) : Len(m) = n - 1}, r \in SeqRules}

SeqCalls ==
    { [call |-> "buildCspHeader", nonce |-> SomeNonce(N1), isDev |-> FALSE,
       headerConfig |-> NoHeaderConfig],
      [call |-> "buildCspHeader", nonce |-> SomeNonce(N2), isDev |-> TRUE,
       headerConfig |-> NoHeaderConfig],
      [call |-> "generateSecurityHeaders", nonce |-> SomeNonce(N1), isDev |-> TRUE,
       headerConfig |-> HeaderOverrides],
      [call |-> "generateSecurityHeaders", nonce |-> SomeNonce(N2), isDev |-> FALSE,
       headerConfig |-> NoHeaderConfig],
      [call |-> "generateSecurityHeaders", nonce |-> NoNonce, isDev |-> FALSE,
       headerConfig |-> NoHeaderConfig] }

SeqInit ==
    /\ \E c \in SeqCalls :
          /\ call = c.call
          /\ nonce = c.nonce
          /\ isDev = c.isDev
          /\ headerConfig = c.headerConfig
    /\ rules \in SeqRuleLists(MaxSeqRules)
    /\ pc = "start"
    /\ i = 1
    /\ directives = <<>>
    /\ merged = <<>>
    /\ result = Pending
    /\ app = NoApp
    /\ wrapped = NoPromise
    /\ events = <<>>
    /\ generated = <<>>
    /\ context = NoContext
    /\ served = <<>>
    /\ uuid = <<>>
    /\ base64 = <<>>
    /\ warnings = <<>>

\* the caller makes its next call, with arguments of its own
NextCall ==
    /\ call \in {"buildCspHeader", "generateSecurityHeaders"}
    /\ pc \in {"done", "threw"}
    /\ \E c \in SeqCalls :
          /\ call' = c.call
          /\ nonce' = c.nonce
          /\ isDev' = c.isDev
          /\ headerConfig' = c.headerConfig
    /\ rules' \in SeqRuleLists(MaxSeqRules)
    /\ pc' = "start"
    /\ result' = Pending
    /\ UNCHANGED <<i, directives, merged>>
    /\ UNCHANGED hvars
    /\ UNCHANGED mvars
    /\ UNCHANGED nvars

SeqNext ==
    \/ Next
    \/ NextCall

SeqSpec == SeqInit /\ [][SeqNext]_vars

(***************************************************************************)
(* createSecureHandler (src/handler.ts): one request to the wrapped        *)
(* handler.  `rules`, `nonce`, `isDev` and `headerConfig` are the          *)
(* configuration the closure captured; `app` is what the application       *)
(* handler does with the request, `wrapped` the promise wrappedHandler     *)
(* returns, `events` the calls made so far.                                *)
(***************************************************************************)
MaxHandlerRules == 1

\* the requests that follow one another
MaxRequests == 2

\* Headers keeps names in lower case
Lower(h) ==
    CASE h = "Content-Security-Policy" -> "content-security-policy"
      [] h = "X-Frame-Options" -> "x-frame-options"
      [] h = "X-Content-Type-Options" -> "x-content-type-options"
      [] h = "Referrer-Policy" -> "referrer-policy"
      [] h = "X-XSS-Protection" -> "x-xss-protection"
      [] h = "Strict-Transport-Security" -> "strict-transport-security"
      [] h = "Permissions-Policy" -> "permissions-policy"
      [] h = "X-Powered-By" -> "x-powered-by"
      [] OTHER -> h

\* the copy with headers.append in place of headers.set
NewResponse_Appended(response, securityHeaders) ==
    LET set == {Lower(h) : h \in DOMAIN securityHeaders}
        Generated(name) == securityHeaders[CHOOSE h \in DOMAIN securityHeaders : Lower(h) = name]
    IN  [status |-> response.status,
         body |-> response.body,
         headers |-> [name \in DOMAIN response.headers \cup set |->
                         IF name \in set /\ name \in DOMAIN response.headers
                         THEN response.headers[name] \o <<",", SP>> \o Generated(name)
                         ELSE IF name \in set THEN Generated(name)
                         ELSE response.headers[name]]]

\* new Response(response.body, response), then headers.set(key, value) for
\* every entry of securityHeaders
NewResponse(response, securityHeaders) ==
    LET set == {Lower(h) : h \in DOMAIN securityHeaders}
    IN  [status |-> response.status,
         body |-> response.body,
         headers |-> [name \in DOMAIN response.headers \cup set |->
                         IF name \in set
                         THEN securityHeaders[CHOOSE h \in DOMAIN securityHeaders : Lower(h) = name]
                         ELSE response.headers[name]]]

PlainResponse ==
    [status |-> 200, body |-> "<html>",
     headers |-> [name \in {"content-type"} |-> <<"text/html">>]]

\* a response that already carries security headers of its own
FramedResponse ==
    [status |-> 404, body |-> "not found",
     headers |-> [name \in {"x-frame-options", "content-security-policy"} |->
                     IF name = "x-frame-options" THEN <<"SAMEORIGIN">>
                     ELSE <<"default-src", SP, "'none'">>]]

\* a response that carries an x-nonce header of the application's own
NoncedResponse ==
    [status |-> 200, body |-> "<html>",
     headers |-> [name \in {"content-type", "x-nonce"} |->
                     IF name = "x-nonce" THEN <<"N2">> ELSE <<"text/html">>]]

Errors == {"Handler failed", "Not authorized"}

\* the application handler: returns a Response, returns a promise that is
\* fulfilled with one or rejected with an error, or throws an error
AppHandlers ==
    {[outcome |-> o, error |-> "", response |-> r] :
        o \in {"returns", "resolves"}, r \in {PlainResponse, FramedResponse, NoncedResponse}}
    \cup {[outcome |-> o, error |-> e, response |-> NoResponse] :
             o \in {"throws", "rejects"}, e \in Errors}

HandlerInit ==
    /\ call = "wrappedHandler"
    /\ \E c \in {d \in Calls : d.call = "generateSecurityHeaders"} :
          /\ nonce = c.nonce
          /\ isDev = c.isDev
          /\ headerConfig = c.headerConfig
    /\ rules \in RuleLists(MaxHandlerRules)
    /\ app \in AppHandlers
    /\ pc = "start"
    /\ i = 1
    /\ directives = <<>>
    /\ merged = <<>>
    /\ result = Pending
    /\ wrapped = NoPromise
    /\ events = <<>>
    /\ generated = <<>>
    /\ context = NoContext
    /\ served = <<>>
    /\ uuid = <<>>
    /\ base64 = <<>>
    /\ warnings = <<>>

\* handler.ts 48-50: wrappedHandler calls the application handler and awaits what
\* it returns; an error thrown by the call rejects the promise of the async function
WrappedCall ==
    /\ call = "wrappedHandler" /\ pc = "start"
    /\ events' = Append(events, "handler")
    /\ IF app.outcome = "throws"
       THEN /\ wrapped' = [state |-> "rejected", error |-> app.error, response |-> NoResponse]
            /\ pc' = "done"
       ELSE /\ wrapped' = [state |-> "pending", error |-> "", response |-> NoResponse]
            /\ pc' = "await"
    /\ UNCHANGED <<call, rules, nonce, isDev, headerConfig, i, directives, merged, result, app>>
    /\ UNCHANGED mvars
    /\ UNCHANGED nvars

\* the await with a rejection answered by a response of its own
WrappedResume_Swallowed ==
    /\ call = "wrappedHandler" /\ pc = "await"
    /\ LET securityHeaders == GenerateSecurityHeaders(rules, nonce, isDev, headerConfig)
           response == IF app.outcome = "rejects"
                       THEN [status |-> 500, body |-> app.error, headers |-> NoHeaders]
                       ELSE app.response
       IN  /\ result' = [status |-> "returned",
                         csp |-> securityHeaders["Content-Security-Policy"],
                         headers |-> securityHeaders]
           /\ events' = Append(events, "generateSecurityHeaders")
           /\ wrapped' = [state |-> "fulfilled", error |-> "",
                          response |-> NewResponse(response, securityHeaders)]
    /\ pc' = "done"
    /\ UNCHANGED <<call, rules, nonce, isDev, headerConfig, i, directives, merged, app>>
    /\ UNCHANGED mvars
    /\ UNCHANGED nvars

\* handler.ts 50-62: the await ends; a rejection leaves wrappedHandler at once, a
\* response gets the generated headers set on a copy of it
WrappedResume ==
    /\ call = "wrappedHandler" /\ pc = "await"
    /\ IF app.outcome = "rejects"
       THEN /\ wrapped' = [state |-> "rejected", error |-> app.error, response |-> NoResponse]
            /\ UNCHANGED <<result, events>>
       ELSE LET securityHeaders == GenerateSecurityHeaders(rules, nonce, isDev, headerConfig)
            IN  /\ result' = [status |-> "returned",
                              csp |-> securityHeaders["Content-Security-Policy"],
                              headers |-> securityHeaders]
                /\ events' = Append(events, "generateSecurityHeaders")
                /\ wrapped' = [state |-> "fulfilled", error |-> "",
                               response |-> NewResponse(app.response, securityHeaders)]
    /\ pc' = "done"
    /\ UNCHANGED <<call, rules, nonce, isDev, headerConfig, i, directives, merged, app>>
    /\ UNCHANGED mvars
    /\ UNCHANGED nvars

\* the next request, served with the options read anew
WrappedNextRequest_NewOptions ==
    /\ call = "wrappedHandler" /\ pc = "done"
    /\ Len(served) < MaxRequests - 1
    /\ served' = Append(served, [status |-> wrapped.state, headers |-> wrapped.response.headers,
                                 app |-> app])
    /\ app' \in AppHandlers
    /\ isDev' = ~isDev
    /\ wrapped' = NoPromise
    /\ result' = Pending
    /\ events' = <<>>
    /\ pc' = "start"
    /\ UNCHANGED <<call, rules, nonce, headerConfig, i, directives, merged, generated, context>>
    /\ UNCHANGED nvars

\* handler.ts 42-48: the request is over and the next one comes to the same
\* wrappedHandler; `rules` and `options` are those of the closure, what the
\* application handler does with the request is open again
WrappedNextRequest ==
    /\ call = "wrappedHandler" /\ pc = "done"
    /\ Len(served) < MaxRequests - 1
    /\ served' = Append(served, [status |-> wrapped.state, headers |-> wrapped.response.headers,
                                 app |-> app])
    /\ app' \in AppHandlers
    /\ wrapped' = NoPromise
    /\ result' = Pending
    /\ events' = <<>>
    /\ pc' = "start"
    /\ UNCHANGED <<call, rules, nonce, isDev, headerConfig, i, directives, merged, generated,
                   context>>
    /\ UNCHANGED nvars

HandlerNext ==
    \/ WrappedCall
    \/ WrappedResume
    \/ WrappedNextRequest

HandlerSpec == HandlerInit /\ [][HandlerNext]_vars

(***************************************************************************)
(* createCspMiddleware (src/middleware.ts): requests pass through the      *)
(* server function one after another.  `rules`, `isDev` and `headerConfig` *)
(* (the additionalHeaders) are the configuration the closure captured,     *)
(* `nonce` is the nonce of the request at hand, `generated` the values the *)
(* nonce generator has returned, `context` what was passed to next(),      *)
(* `served` the requests that are over.                                    *)
(***************************************************************************)
\* the values a nonce generator may return; it may return one twice
NonceValues == {N1, N2}

\* the headers the server function sets, additionalHeaders last
MiddlewareHeaders(cspHeader, dev, additional) ==
    LET fixed == {"content-security-policy", "x-frame-options", "x-content-type-options",
                  "referrer-policy", "x-xss-protection", "permissions-policy"}
                 \cup (IF dev THEN {} ELSE {"strict-transport-security"})
        extra == IF additional.given THEN DOMAIN additional.cfg ELSE {}
        Named(name) == CHOOSE h \in DOMAIN defaultSecurityHeadersConfig : Lower(h) = name
    IN  [name \in fixed \cup {Lower(h) : h \in extra} |->
            IF \E h \in extra : Lower(h) = name
            THEN additional.cfg[CHOOSE h \in extra : Lower(h) = name]
            ELSE IF name = "content-security-policy" THEN cspHeader
            ELSE defaultSecurityHeadersConfig[Named(name)]]

\* a configuration that allows no script at all
NoScriptRule == <<Field("script-src", StringValue(None)), Field("script-src-elem", StringValue(None))>>

MiddlewareInit ==
    /\ call = "cspMiddleware"
    /\ rules \in RuleLists(MaxHandlerRules) \cup {<<NoScriptRule>>}
    /\ isDev \in BOOLEAN
    /\ headerConfig \in {NoHeaderConfig, HeaderOverrides}
    /\ nonce = NoNonce
    /\ pc = "start"
    /\ i = 1
    /\ directives = <<>>
    /\ merged = <<>>
    /\ result = Pending
    /\ app = NoApp
    /\ wrapped = NoPromise
    /\ events = <<>>
    /\ generated = <<>>
    /\ context = NoContext
    /\ served = <<>>
    /\ uuid = <<>>
    /\ base64 = <<>>
    /\ warnings = <<>>

\* middleware.ts 55-58: the nonce of this request
MwNonce ==
    /\ call = "cspMiddleware" /\ pc = "start"
    /\ \E n \in NonceValues :
          /\ nonce' = SomeNonce(n)
          /\ generated' = Append(generated, n)
    /\ events' = Append(events, "nonceGenerator")
    /\ pc' = "build"
    /\ UNCHANGED <<call, rules, isDev, headerConfig, i, directives, merged, result, app, wrapped,
                   context, served>>
    /\ UNCHANGED nvars

\* the headers built with a nonce made when the middleware was created
MwHeaders_ConfigNonce ==
    /\ call = "cspMiddleware" /\ pc = "build"
    /\ LET built == BuildCspHeader(rules, N1, isDev)
       IN  IF built.ok
           THEN /\ result' = [status |-> "returned", csp |-> built.csp,
                              headers |-> MiddlewareHeaders(built.csp, isDev, headerConfig)]
                /\ events' = Append(events, "setResponseHeaders")
                /\ pc' = "next"
           ELSE /\ result' = [Pending EXCEPT !.status = "threw"]
                /\ pc' = "threw"
                /\ UNCHANGED events
    /\ UNCHANGED <<call, rules, nonce, isDev, headerConfig, i, directives, merged, app, wrapped>>
    /\ UNCHANGED mvars
    /\ UNCHANGED nvars

\* middleware.ts 61-92: the policy is built with the nonce and the headers are set;
\* an error of buildCspHeader leaves the server function
MwHeaders ==
    /\ call = "cspMiddleware" /\ pc = "build"
    /\ LET built == BuildCspHeader(rules, nonce.s, isDev)
       IN  IF built.ok
           THEN /\ result' = [status |-> "returned", csp |-> built.csp,
                              headers |-> MiddlewareHeaders(built.csp, isDev, headerConfig)]
                /\ events' = Append(events, "setResponseHeaders")
                /\ pc' = "next"
           ELSE /\ result' = [Pending EXCEPT !.status = "threw"]
                /\ pc' = "threw"
                /\ UNCHANGED events
    /\ UNCHANGED <<call, rules, nonce, isDev, headerConfig, i, directives, merged, app, wrapped>>
    /\ UNCHANGED mvars
    /\ UNCHANGED nvars

\* middleware.ts 95-99: next({ context: { nonce } })
MwNext ==
    /\ call = "cspMiddleware" /\ pc = "next"
    /\ context' = [given |-> TRUE, nonce |-> nonce.s]
    /\ events' = Append(events, "next")
    /\ pc' = "done"
    /\ UNCHANGED <<call, rules, nonce, isDev, headerConfig, i, directives, merged, result, app,
                   wrapped, generated, served>>
    /\ UNCHANGED nvars

\* the request is over and the next one arrives
MwNextRequest ==
    /\ call = "cspMiddleware" /\ pc \in {"done", "threw"}
    /\ Len(served) < MaxRequests - 1
    /\ served' = Append(served, [status |-> result.status, headers |-> result.headers,
                                 context |-> context])
    /\ nonce' = NoNonce
    /\ result' = Pending
    /\ context' = NoContext
    /\ events' = <<>>
    /\ pc' = "start"
    /\ UNCHANGED <<call, rules, isDev, headerConfig, i, directives, merged, app, wrapped, generated>>
    /\ UNCHANGED nvars

MiddlewareNext ==
    \/ MwNonce
    \/ MwHeaders
    \/ MwNext
    \/ MwNextRequest

MiddlewareSpec == MiddlewareInit /\ [][MiddlewareNext]_vars

(***************************************************************************)
(* generateNonce (nonce.ts) and validateNonce (src/internal/defaults.ts).  *)
(* A string is here the sequence of its characters; `uuid` is the string   *)
(* crypto.randomUUID() returned, `base64` the nonce generateNonce          *)
(* returned, `warnings` the calls of console.warn so far.                  *)
(***************************************************************************)
RandomDigits == 2

HexDigits == <<"0", "1", "2", "3", "4", "5", "6", "7", "8", "9", "a", "b", "c", "d", "e", "f">>

HexChars == {HexDigits[k] : k \in 1..Len(HexDigits)}

\* the index of the sextet's character is the sextet plus one
Base64Alphabet ==
    <<
      "A", "B", "C", "D", "E", "F", "G", "H", "I", "J", "K", "L", "M", "N", "O", "P",
      "Q", "R", "S", "T", "U", "V", "W", "X", "Y", "Z", "a", "b", "c", "d", "e", "f",
      "g", "h", "i", "j", "k", "l", "m", "n", "o", "p", "q", "r", "s", "t", "u", "v",
      "w", "x", "y", "z", "0", "1", "2", "3", "4", "5", "6", "7", "8", "9", "+", "/"
    >>

\* the character class [A-Za-z0-9+/]
Base64Chars == {Base64Alphabet[k] : k \in 1..Len(Base64Alphabet)}

\* the UTF-8 code of a character of a UUID string (one byte each)
CharCode(c) ==
    IF c = "-" THEN 45
    ELSE LET k == CHOOSE n \in 1..16 : HexDigits[n] = c
         IN  IF k <= 10 THEN 47 + k ELSE 86 + k

\* Buffer.from(string): the bytes of the string
BufferFrom(str) == [k \in 1..Len(str) |-> CharCode(str[k])]

RECURSIVE Base64(_)
\* buffer.toString("base64"): three bytes give four characters, the last
\* group is padded with "="
Base64(bytes) ==
    IF bytes = <<>> THEN <<>>
    ELSE LET b1 == bytes[1]
             c1 == Base64Alphabet[(b1 \div 4) + 1]
         IN  IF Len(bytes) = 1
             THEN <<c1, Base64Alphabet[(b1 % 4) * 16 + 1], "=", "=">>
             ELSE LET b2 == bytes[2]
                      c2 == Base64Alphabet[(b1 % 4) * 16 + (b2 \div 16) + 1]
                  IN  IF Len(bytes) = 2
                      THEN <<c1, c2, Base64Alphabet[(b2 % 16) * 4 + 1], "=">>
                      ELSE LET b3 == bytes[3]
                           IN  <<c1, c2, Base64Alphabet[(b2 % 16) * 4 + (b3 \div 64) + 1],
                                 Base64Alphabet[(b3 % 64) + 1]>>
                               \o Base64(SubSeq(bytes, 4, Len(bytes)))

\* the UUID string returned as it is
GenerateNonce_Plain(id) == id

\* Buffer.from(crypto.randomUUID()).toString("base64"), for the UUID drawn
GenerateNonce(id) == Base64(BufferFrom(id))

\* /^[A-Za-z0-9+/]+=*$/.test(n)
\* (one character of the class at least, then nothing but "=" after the first "=")
IsBase64Like(n) ==
    /\ n # <<>>
    /\ n[1] \in Base64Chars
    /\ \A j \in 1..Len(n) :
          \/ n[j] \in Base64Chars
          \/ n[j] = "=" /\ \A k \in j..Len(n) : n[k] = "="

\* validateNonce(n): what it returns and the warnings it logs
ValidateNonce(n) ==
    [isValid |-> Len(n) >= 24 /\ IsBase64Like(n),
     warnings |-> (IF Len(n) < 24 THEN <<"Nonce is too short">> ELSE <<>>)
                  \o (IF ~IsBase64Like(n)
                      THEN <<"Nonce should be base64-encoded random bytes">> ELSE <<>>)]

\* a version-4 UUID string, as crypto.randomUUID() formats it
UuidTemplate ==
    <<"1", "2", "3", "e", "4", "5", "6", "7", "-",
      "e", "8", "9", "b", "-",
      "4", "2", "d", "3", "-",
      "a", "4", "5", "6", "-",
      "4", "2", "6", "6", "1", "4", "1", "7", "4", "0", "0", "0">>

\* the characters crypto.randomUUID() can put at a position of the string
UuidShape(pos) ==
    IF pos \in {9, 14, 19, 24} THEN {"-"}
    ELSE IF pos = 15 THEN {"4"}
    ELSE IF pos = 20 THEN {"8", "9", "a", "b"}
    ELSE HexChars

\* the characters of a UUID string
UuidChars == HexChars \cup {"-"}

\* crypto.randomUUID(): of the UUID strings, the ones explored have RandomDigits
\* consecutive characters, from position p on, that take every value the
\* format allows (g), the others being those of the template
RandomUUID(p, g) ==
    [pos \in 1..36 |-> IF pos \in p..(p + RandomDigits - 1) THEN g[pos - p + 1]
                       ELSE UuidTemplate[pos]]

NonceInit ==
    /\ call = "generateNonce"
    /\ rules = <<>>
    /\ nonce = NoNonce
    /\ isDev \in BOOLEAN
    /\ headerConfig = NoHeaderConfig
    /\ pc = "start"
    /\ i = 1
    /\ directives = <<>>
    /\ merged = <<>>
    /\ result = Pending
    /\ app = NoApp
    /\ wrapped = NoPromise
    /\ events = <<>>
    /\ generated = <<>>
    /\ context = NoContext
    /\ served = <<>>
    /\ uuid = <<>>
    /\ base64 = <<>>
    /\ warnings = <<>>

\* nonce.ts 20-22: generateNonce()
NonceGenerate ==
    /\ call = "generateNonce" /\ pc = "start"
    /\ \E p \in 1..(36 - RandomDigits + 1), g \in [1..RandomDigits -> UuidChars] :
          /\ \A j \in 1..RandomDigits : g[j] \in UuidShape(p + j - 1)
          /\ uuid' = RandomUUID(p, g)
          /\ base64' = GenerateNonce(RandomUUID(p, g))
    /\ pc' = "validate"
    /\ UNCHANGED <<call, rules, nonce, isDev, headerConfig, i, directives, merged, result>>
    /\ UNCHANGED hvars
    /\ UNCHANGED mvars
    /\ UNCHANGED warnings

\* defaults.ts 61-70: getDefaultCspDirectives(isDev, nonce) validates the nonce
\* it is given, if it is not empty, and warns when validateNonce returns false
NonceDefaults ==
    /\ call = "generateNonce" /\ pc = "validate"
    /\ LET checked == ValidateNonce(base64)
       IN  warnings' = IF base64 = <<>> THEN warnings
                       ELSE warnings \o checked.warnings
                            \o (IF checked.isValid THEN <<>> ELSE <<"Invalid nonce detected">>)
    /\ nonce' = SomeNonce(base64)
    /\ directives' = DefaultCspDirectives(isDev, SomeNonce(base64))
    /\ pc' = "done"
    /\ UNCHANGED <<call, rules, isDev, headerConfig, i, merged, result>>
    /\ UNCHANGED hvars
    /\ UNCHANGED mvars
    /\ UNCHANGED <<uuid, base64>>

NonceNext ==
    \/ NonceGenerate
    \/ NonceDefaults

NonceSpec == NonceInit /\ [][NonceNext]_vars

(***************************************************************************)
(* Reading a returned policy: the directives of a header string, as a      *)
(* browser takes them (split on ";", then on whitespace)                   *)
(***************************************************************************)
Words(s) == SelectSeq(SplitWs(s), IsNonEmpty)

RECURSIVE Ascending(_)
\* a set of numbers as an ascending sequence
Ascending(S) ==
    IF S = {} THEN <<>>
    ELSE LET m == CHOOSE x \in S : \A y \in S : x <= y
         IN  <<m>> \o Ascending(S \ {m})

\* the pieces of s between its semicolons, in order
SplitSemi(s) ==
    LET cuts == Ascending({0, Len(s) + 1} \cup {k \in 1..Len(s) : s[k] = SEMI})
    IN  [n \in 1..(Len(cuts) - 1) |-> SubSeq(s, cuts[n] + 1, cuts[n + 1] - 1)]

\* the directives of a policy string: [name, values] per non-empty segment
ParseCsp(s) ==
    LET segs == SplitSemi(s)
        words == [n \in 1..Len(segs) |-> Words(segs[n])]
        named == SelectSeq(words, IsNonEmpty)
    IN  [n \in 1..Len(named) |-> [name |-> Head(named[n]), values |-> Tail(named[n])]]

Range(seq) == {seq[n] : n \in 1..Len(seq)}

RECURSIVE Flatten(_)
Flatten(ss) == IF ss = <<>> THEN <<>> ELSE Head(ss) \o Flatten(Tail(ss))

\* the source tokens a field value holds
SuppliedTokens(v) ==
    CASE v.t = "string" -> Words(v.s)
      [] v.t = "array" -> Flatten([n \in 1..Len(v.a) |-> Words(v.a[n])])
      [] OTHER -> <<>>

Returned == result.status = "returned"

BuildReturned == call = "buildCspHeader" /\ Returned

GenReturned == call = "generateSecurityHeaders" /\ Returned

Policy == ParseCsp(result.csp)

\* the segments of the returned policy that carry directive D
Segments(D) == SelectSeq(Policy, LAMBDA e : e.name = <<D>>)

\* the tokens of directive D in the returned policy
PolicyTokens(D) == UNION {Range(e.values) : e \in Range(Segments(D))}

\* the fields of the rule list, in merge order
AllFields == Flatten(rules)

\* 'none' shares no directive of the policy with another token
NoneIsAlone(policy) ==
    \A n \in 1..Len(policy) :
        None \in Range(policy[n].values) => Range(policy[n].values) = {None}

\* every element of every list value is one token, with no whitespace around it
SingleTokenLists ==
    \A n \in 1..Len(AllFields) :
        LET v == AllFields[n].value
        IN  v.t = "array" => \A k \in 1..Len(v.a) : Words(v.a[k]) = <<v.a[k]>>

(***************************************************************************)
(* C1: the header that buildCspHeader returns has no directive that holds  *)
(* 'none' together with another token (after the merge and the copy to the *)
(* granular directives).  Stated here for the rule lists whose list        *)
(* elements are single tokens, where it already fails: the copy to the     *)
(* granular directives runs after the 'none' handling.                     *)
(***************************************************************************)
C1_NoneIsAlone == (BuildReturned /\ SingleTokenLists) => NoneIsAlone(Policy)

CapNone == <<"'None'">>

IsDirectiveField(f) == f.key \notin {"description", "source"}

\* the field supplies exactly the single token 'none'
SuppliesOnlyNone(f) == IsDirectiveField(f) /\ SuppliedTokens(f.value) = <<None>>

\* the tokens other than 'none' that the field supplies
OtherTokens(f) == Range(SuppliedTokens(f.value)) \ {None}

\* a field after the n-th names the same directive and supplies 'none' alone
LaterOnlyNone(n) ==
    \E m \in (n + 1)..Len(AllFields) :
        AllFields[m].key = AllFields[n].key /\ SuppliesOnlyNone(AllFields[m])

Named(D) == \E n \in 1..Len(AllFields) : AllFields[n].key = D

\* the n-th field is the last one that names its directive
LastNaming(n) == \A m \in (n + 1)..Len(AllFields) : AllFields[m].key # AllFields[n].key

BaselineNoneDirectives == {"child-src", "frame-ancestors", "frame-src", "object-src"}

(***************************************************************************)
(* C2: for a directive whose baseline is 'none': when a rule supplies a    *)
(* token other than 'none' for it and no later rule supplies 'none' alone, *)
(* the header of buildCspHeader holds every such token for the directive   *)
(* and not 'none'; a directive no rule names stays exactly 'none'.         *)
(***************************************************************************)
C2_BaselineNoneReplaced ==
    BuildReturned =>
        /\ \A n \in 1..Len(AllFields) :
              LET f == AllFields[n]
              IN  (f.key \in BaselineNoneDirectives /\ OtherTokens(f) # {} /\ ~LaterOnlyNone(n))
                      => (OtherTokens(f) \subseteq PolicyTokens(f.key)
                          /\ None \notin PolicyTokens(f.key))
        /\ \A D \in BaselineNoneDirectives :
              ~Named(D) => Segments(D) = <<[name |-> <<D>>, values |-> <<None>>]>>

(***************************************************************************)
(* C3: when the last rule field that names a directive supplies exactly    *)
(* the single token 'none', the directive's value in the header of         *)
(* buildCspHeader is exactly 'none'.                                       *)
(***************************************************************************)
C3_LastNoneWins ==
    BuildReturned =>
        \A n \in 1..Len(AllFields) :
            (SuppliesOnlyNone(AllFields[n]) /\ LastNaming(n))
                => Segments(AllFields[n].key)
                       = <<[name |-> <<AllFields[n].key>>, values |-> <<None>>]>>

(***************************************************************************)
(* C4: in the Content-Security-Policy of generateSecurityHeaders 'none'    *)
(* shares no directive with another token: a source added to a directive   *)
(* whose baseline is 'none' removes 'none', a rule that supplies only      *)
(* 'none' makes the directive exactly 'none', and 'none' given together    *)
(* with other sources is dropped.                                          *)
(***************************************************************************)
C4_GeneratedNoneIsAlone ==
    (GenReturned /\ SingleTokenLists) =>
        /\ NoneIsAlone(Policy)
        /\ \A n \in 1..Len(AllFields) :
              LET f == AllFields[n]
              IN  /\ (f.key \in BaselineNoneDirectives /\ OtherTokens(f) # {})
                         => None \notin PolicyTokens(f.key)
                  /\ (SuppliesOnlyNone(f) /\ LastNaming(n)) => PolicyTokens(f.key) = {None}

(***************************************************************************)
(* C5: buildCspHeader takes only the exact string 'none' for the keyword:  *)
(* a rule value that holds 'None' keeps it (with its other tokens) in the  *)
(* header, and does not reset the directive.                               *)
(***************************************************************************)
C5_NoneIsCaseSensitive ==
    BuildReturned =>
        \A n \in 1..Len(AllFields) :
            LET f == AllFields[n]
                base == BaseDirectives(nonce.s, isDev)
            IN  (IsDirectiveField(f) /\ CapNone \in OtherTokens(f) /\ ~LaterOnlyNone(n))
                    => /\ OtherTokens(f) \subseteq PolicyTokens(f.key)
                       /\ (HasKey(base, f.key) /\ \A m \in 1..Len(AllFields) :
                                                      AllFields[m].key = f.key => m = n)
                              => Range(Get(base, f.key)) \ {None} \subseteq PolicyTokens(f.key)

C5_Witness ==
    /\ BuildReturned
    /\ rules = << <<Field("frame-src", StringValue(<<"'None'", SP, "https://x">>))>> >>
    /\ PolicyTokens("frame-src") = {CapNone, X}

(***************************************************************************)
(* C6: every directive of a returned policy (buildCspHeader and            *)
(* generateSecurityHeaders) holds each token at most once.                 *)
(***************************************************************************)
C6_NoDuplicateTokens ==
    Returned =>
        \A n \in 1..Len(Policy) :
            \A a, b \in 1..Len(Policy[n].values) :
                Policy[n].values[a] = Policy[n].values[b] => a = b

\* no directive field of the rule reduces to the single token 'none'
Additive(rule) == \A k \in 1..Len(rule) : ~SuppliesOnlyNone(rule[k])

\* the directives of a policy string with the set of tokens of each
TokenSets(s) == {<<e.name, Range(e.values)>> : e \in Range(ParseCsp(s))}

(***************************************************************************)
(* C7: for two rules A and B of which no directive field reduces to the    *)
(* single token 'none', buildCspHeader([A, B]) and buildCspHeader([B, A])  *)
(* hold the same directives and the same set of tokens per directive.      *)
(***************************************************************************)
C7_OrderIndependent ==
    (BuildReturned /\ Len(rules) = 2 /\ Additive(rules[1]) /\ Additive(rules[2])) =>
        LET swapped == BuildCspHeader(<<rules[2], rules[1]>>, nonce.s, isDev)
        IN  swapped.ok /\ TokenSets(swapped.csp) = TokenSets(result.csp)

C7_Witness ==
    /\ BuildReturned
    /\ rules = << <<Field("frame-src", ArrayValue(<<None, Y>>))>>,
                  <<Field("frame-src", StringValue(X))>> >>
    /\ PolicyTokens("frame-src") = {X, Y}
    /\ BuildCspHeader(<<rules[2], rules[1]>>, nonce.s, isDev).csp # result.csp

(***************************************************************************)
(* C8: in the header of buildCspHeader every token of script-src other     *)
(* than 'unsafe-eval' is also in script-src-elem, and every token of       *)
(* style-src is also in style-src-elem, whichever rule introduced it.      *)
(***************************************************************************)
C8_GranularPropagation ==
    BuildReturned =>
        /\ PolicyTokens("script-src") \ {UnsafeEval} \subseteq PolicyTokens("script-src-elem")
        /\ PolicyTokens("style-src") \subseteq PolicyTokens("style-src-elem")

C8_Witness ==
    /\ BuildReturned
    /\ Len(rules) = 2
    /\ rules[1] = <<Field("style-src", StringValue(X))>>
    /\ rules[2] = <<Field("script-src", ArrayValue(<<None, Y>>))>>
    /\ X \in PolicyTokens("style-src-elem")
    /\ Y \in PolicyTokens("script-src-elem")

(***************************************************************************)
(* C9: when no rule supplies 'unsafe-eval' under script-src-elem itself,   *)
(* the script-src-elem of the header of buildCspHeader does not hold       *)
(* 'unsafe-eval', also when script-src holds it.                           *)
(***************************************************************************)
C9_NoEvalInScriptSrcElem ==
    (BuildReturned /\ \A n \in 1..Len(AllFields) :
                          AllFields[n].key = "script-src-elem"
                              => UnsafeEval \notin OtherTokens(AllFields[n]))
        => UnsafeEval \notin PolicyTokens("script-src-elem")

WsLocalhost == <<"ws://localhost:*">>
WssLocalhost == <<"wss://localhost:*">>
HttpLocalhost == <<"http://localhost:*">>

DevTokens == {UnsafeEval, WsLocalhost, WssLocalhost}

\* no rule supplies a development token
NoRuleSuppliesDevTokens ==
    \A n \in 1..Len(AllFields) :
        IsDirectiveField(AllFields[n]) => OtherTokens(AllFields[n]) \cap DevTokens = {}

\* every token of the returned policy
AllPolicyTokens == UNION {Range(e.values) : e \in Range(Policy)}

\* every token of the working directive table
TableTokens == UNION {Range(e.values) : e \in Range(directives)}

\* the baseline never holds http://localhost:* (no explored rule supplies it)
NoHttpLocalhost == HttpLocalhost \notin TableTokens

(***************************************************************************)
(* C10 as claimed: with no rule supplying them, the returned policy holds  *)
(* 'unsafe-eval' in script-src and ws://localhost:* and wss://localhost:*  *)
(* in connect-src when isDev, and none of the three anywhere when not      *)
(* isDev; http://localhost:* is not in the baseline.                       *)
(***************************************************************************)
C10_DevProdSwitch_Claimed ==
    /\ NoHttpLocalhost
    /\ (Returned /\ NoRuleSuppliesDevTokens) =>
          IF isDev
          THEN /\ UnsafeEval \in PolicyTokens("script-src")
               /\ {WsLocalhost, WssLocalhost} \subseteq PolicyTokens("connect-src")
          ELSE AllPolicyTokens \cap DevTokens = {}

\* a rule of buildCspHeader supplies 'none' alone for directive D
ResetByRule(D) ==
    /\ call = "buildCspHeader"
    /\ \E n \in 1..Len(AllFields) : AllFields[n].key = D /\ SuppliesOnlyNone(AllFields[n])

(***************************************************************************)
(* C10 as amended: as claimed, but when isDev the development tokens are   *)
(* in script-src (connect-src) provided no rule of buildCspHeader supplies *)
(* 'none' alone for script-src (connect-src).                              *)
(***************************************************************************)
C10_DevProdSwitch ==
    /\ NoHttpLocalhost
    /\ (Returned /\ NoRuleSuppliesDevTokens) =>
          IF isDev
          THEN /\ ~ResetByRule("script-src") => UnsafeEval \in PolicyTokens("script-src")
               /\ ~ResetByRule("connect-src")
                     => {WsLocalhost, WssLocalhost} \subseteq PolicyTokens("connect-src")
          ELSE AllPolicyTokens \cap DevTokens = {}

C10_Witness ==
    /\ Returned
    /\ isDev
    /\ NoRuleSuppliesDevTokens
    /\ Len(rules) = 2
    /\ UnsafeEval \in PolicyTokens("script-src")
    /\ WssLocalhost \in PolicyTokens("connect-src")

(***************************************************************************)
(* C11: generateSecurityHeaders with no rules: with a non-empty nonce n    *)
(* script-src holds 'nonce-n' and 'strict-dynamic' and the policy holds    *)
(* 'unsafe-inline' nowhere; with no nonce script-src is exactly            *)
(* 'self' 'unsafe-inline', followed by 'unsafe-eval' only when isDev.      *)
(***************************************************************************)
C11_NonceSubstitution ==
    (GenReturned /\ rules = <<>>) =>
        IF NonceTruthy(nonce)
        THEN /\ {NonceToken(nonce.s), StrictDynamic} \subseteq PolicyTokens("script-src")
             /\ UnsafeInline \notin AllPolicyTokens
        ELSE Segments("script-src")
                 = << [name |-> <<"script-src">>,
                       values |-> IF isDev THEN <<Self, UnsafeInline, UnsafeEval>>
                                           ELSE <<Self, UnsafeInline>>] >>

C11_Witness ==
    /\ GenReturned
    /\ rules = <<>>
    /\ nonce = SomeNonce(N1)
    /\ <<"'nonce-", "N1", "'">> \in PolicyTokens("script-src")
    /\ <<"'nonce-", "N1", "'">> \in PolicyTokens("style-src")

\* the baseline policy as one string, for nonce n
BaselineText(n, dev) ==
    <<"default-src", SP, "'self'", SEMI, SP,
      "base-uri", SP, "'self'", SEMI, SP,
      "child-src", SP, "'none'", SEMI, SP,
      "connect-src", SP, "'self'">>
    \o (IF dev THEN <<SP, "ws://localhost:*", SP, "wss://localhost:*">> ELSE <<>>)
    \o <<SEMI, SP,
      "font-src", SP, "'self'", SEMI, SP,
      "form-action", SP, "'self'", SEMI, SP,
      "frame-ancestors", SP, "'none'", SEMI, SP,
      "frame-src", SP, "'none'", SEMI, SP,
      "img-src", SP, "'self'", SP, "blob:", SP, "data:", SEMI, SP,
      "manifest-src", SP, "'self'", SEMI, SP,
      "media-src", SP, "'self'", SEMI, SP,
      "object-src", SP, "'none'", SEMI, SP,
      "script-src", SP, "'nonce-">> \o n \o <<"'", SP, "'strict-dynamic'">>
    \o (IF dev THEN <<SP, "'unsafe-eval'">> ELSE <<>>)
    \o <<SEMI, SP,
      "script-src-elem", SP, "'nonce-">> \o n \o <<"'", SP, "'strict-dynamic'", SEMI, SP,
      "style-src", SP, "'self'", SP, "'unsafe-inline'", SEMI, SP,
      "style-src-elem", SP, "'self'", SP, "'unsafe-inline'", SEMI, SP,
      "style-src-attr", SP, "'unsafe-inline'", SEMI, SP,
      "worker-src", SP, "'self'", SP, "blob:">>

HeaderSegments(s) ==
    LET segs == SplitSemi(s)
    IN  [n \in 1..Len(segs) |->
            IF n > 1 /\ segs[n] # <<>> /\ Head(segs[n]) = SP THEN Tail(segs[n]) ELSE segs[n]]

\* the fields that name directive D
FieldsNaming(D) == SelectSeq(AllFields, LAMBDA f : f.key = D)

\* the field enables a boolean directive: true or ""
Enables(f) == f.value = BooleanValue(TRUE) \/ f.value = StringValue(EmptyString)

(***************************************************************************)
(* C13: in the Content-Security-Policy of generateSecurityHeaders a        *)
(* boolean directive that at least one rule gives as true or "" is one     *)
(* segment made of its bare name, with no value and no trailing space; a   *)
(* boolean directive that every naming rule gives as false is absent.      *)
(***************************************************************************)
C13_BooleanDirectives ==
    GenReturned =>
        \A D \in BooleanKeys :
            LET naming == FieldsNaming(D)
            IN  /\ (\E n \in 1..Len(naming) : Enables(naming[n]))
                      => /\ Segments(D) = <<[name |-> <<D>>, values |-> <<>>]>>
                         /\ <<D>> \in Range(HeaderSegments(result.csp))
                /\ (naming # <<>> /\ \A n \in 1..Len(naming) : naming[n].value = BooleanValue(FALSE))
                      => /\ Segments(D) = <<>>
                         /\ \A k \in 1..Len(result.csp) : result.csp[k] # D

C13_Witness ==
    /\ GenReturned
    /\ rules = << <<Field("upgrade-insecure-requests", BooleanValue(FALSE))>>,
                  <<Field("upgrade-insecure-requests", BooleanValue(TRUE))>> >>
    /\ HeaderSegments(result.csp)[Len(HeaderSegments(result.csp))] = <<"upgrade-insecure-requests">>

C13_WitnessAbsent ==
    /\ GenReturned
    /\ rules = << <<Field("upgrade-insecure-requests", BooleanValue(FALSE))>> >>
    /\ Segments("upgrade-insecure-requests") = <<>>

RECURSIVE StartOf(_, _)
\* where the k-th entry starts in "e1 e2 ... ek", the entries one space apart
StartOf(values, k) == IF k = 1 THEN 1 ELSE StartOf(values, k - 1) + Len(values[k - 1]) + 1

\* text is the entries of `values`, in order, with exactly one space between two
SingleSpaced(text, values) ==
    IF values = <<>> THEN text = <<>>
    ELSE /\ Len(text) = StartOf(values, Len(values)) + Len(values[Len(values)]) - 1
         /\ \A k \in 1..Len(values) :
               /\ SubSeq(text, StartOf(values, k), StartOf(values, k) + Len(values[k]) - 1)
                      = values[k]
               /\ k > 1 => text[StartOf(values, k) - 1] = SP

\* the tokens, other than 'none' and the baseline's, that the rules supply for D, in order
SuppliedFor(D) ==
    LET naming == FieldsNaming(D)
        base == BaseDirectives(nonce.s, isDev)
        inBase == IF HasKey(base, D) THEN Range(Get(base, D)) ELSE {}
    IN  SelectSeq(Flatten([n \in 1..Len(naming) |-> SuppliedTokens(naming[n].value)]),
                  LAMBDA t : t # None /\ t \notin inBase)

\* the directives the rules name
NamedDirectives == {AllFields[n].key : n \in {m \in 1..Len(AllFields) : IsDirectiveField(AllFields[m])}}

NamedWithoutTokens(D) ==
    /\ ~HasKey(BaseDirectives(nonce.s, isDev), D)
    /\ FieldsNaming(D) # <<>>
    /\ \A n \in 1..Len(FieldsNaming(D)) :
          /\ FieldsNaming(D)[n].value.t \in {"string", "array"}
          /\ SuppliedTokens(FieldsNaming(D)[n].value) = <<>>

(***************************************************************************)
(* C15: when the rules of buildCspHeader name a directive that is absent   *)
(* from the baseline and give it no token (the empty string, a             *)
(* whitespace-only string, an empty list), the header holds a segment that *)
(* is just the directive name, with no trailing space and no value.        *)
(***************************************************************************)
C15_ValuelessDirective ==
    BuildReturned =>
        \A D \in NamedDirectives :
            NamedWithoutTokens(D) => <<D>> \in Range(HeaderSegments(result.csp))

\* a description, a source, or a field whose name is no directive of CspRule
IsNonDirective(f) == f.key \notin KnownDirectives

\* the rule list with the non-directive fields removed from every rule
WithoutNonDirectives(rs) ==
    [n \in 1..Len(rs) |-> SelectSeq(rs[n], LAMBDA f : ~IsNonDirective(f))]

\* the policy the call returns for the rule list rs (its own when it throws)
PolicyFor(rs) ==
    IF call = "buildCspHeader"
    THEN LET built == BuildCspHeader(rs, nonce.s, isDev)
         IN  IF built.ok THEN built.csp ELSE result.csp
    ELSE GenerateSecurityHeaders(rs, nonce, isDev, headerConfig)["Content-Security-Policy"]

(***************************************************************************)
(* C16: a description, a source and a field whose name is not a CSP        *)
(* directive are ignored: the policy returned (buildCspHeader and          *)
(* generateSecurityHeaders) is the one returned for the same rules without *)
(* those fields, and none of their names is a directive of the policy.     *)
(***************************************************************************)
C16_NonDirectivesIgnored ==
    Returned =>
        /\ result.csp = PolicyFor(WithoutNonDirectives(rules))
        /\ \A n \in 1..Len(AllFields) :
              IsNonDirective(AllFields[n]) => Segments(AllFields[n].key) = <<>>

(***************************************************************************)
(* C17: buildCspHeader never raises an error, whatever shape the directive *)
(* fields of its rules have (string, list, empty string, boolean).         *)
(***************************************************************************)
C17_BuildNeverThrows == call = "buildCspHeader" => result.status # "threw"

\* the entries of the header map that generateSecurityHeaders returned
HeaderNames == DOMAIN result.headers

(***************************************************************************)
(* C20: the header map of generateSecurityHeaders has a                    *)
(* Strict-Transport-Security entry when isDev is false and has none when   *)
(* isDev is true.                                                          *)
(***************************************************************************)
C20_HstsProductionOnly ==
    GenReturned => ("Strict-Transport-Security" \in HeaderNames <=> ~isDev)

\* the nonces that occur in a string
NoncesIn(s) == {<<s[k]>> : k \in {n \in 1..Len(s) : <<s[n]>> \in {N1, N2}}}

\* the result is the one the call's own arguments determine
OwnResult ==
    IF call = "buildCspHeader"
    THEN /\ BuildCspHeader(rules, nonce.s, isDev).ok
         /\ result.csp = BuildCspHeader(rules, nonce.s, isDev).csp
    ELSE /\ result.headers = GenerateSecurityHeaders(rules, nonce, isDev, headerConfig)
         /\ result.csp = result.headers["Content-Security-Policy"]

(***************************************************************************)
(* C18: in a sequence of calls of buildCspHeader and                       *)
(* generateSecurityHeaders every result is the one the call's own          *)
(* arguments (rules, nonce, isDev, headerConfig) determine, whatever calls *)
(* came before; the policy holds no nonce but the call's own; and no step  *)
(* of a call changes the call's rule list or arguments.                    *)
(***************************************************************************)
C18_CallsIndependent ==
    /\ [](Returned => (OwnResult /\ NoncesIn(result.csp) \subseteq {nonce.s}))
    /\ [][Next => UNCHANGED <<rules, nonce, isDev, headerConfig>>]_vars

C18_Witness ==
    /\ BuildReturned
    /\ nonce = SomeNonce(N2)
    /\ rules = <<>>
    /\ merged # <<>>
    /\ NoncesIn(result.csp) = {N2}

\* the application handler throws, or returns a promise that is rejected
AppFails == app.outcome \in {"throws", "rejects"}

(***************************************************************************)
(* C19: when the application handler throws or returns a rejected promise, *)
(* the handler wrapped by createSecureHandler rejects with that same       *)
(* error; no security headers are generated and no response is produced.   *)
(***************************************************************************)
C19_ErrorPropagates ==
    (call = "wrappedHandler" /\ AppFails) =>
        /\ "generateSecurityHeaders" \notin Range(events)
        /\ result = Pending
        /\ wrapped.state \in {"none", "pending", "rejected"}
        /\ wrapped.response = NoResponse
        /\ wrapped.state = "rejected" => wrapped.error = app.error
        /\ pc = "done" => wrapped.state = "rejected"

C19_Witness ==
    /\ call = "wrappedHandler"
    /\ pc = "done"
    /\ app.outcome = "rejects"
    /\ wrapped = [state |-> "rejected", error |-> "Not authorized", response |-> NoResponse]
    /\ events = <<"handler">>

(***************************************************************************)
(* C21: the header map of generateSecurityHeaders has an x-nonce entry     *)
(* exactly when a non-empty nonce was supplied; its value is that nonce,   *)
(* and the Content-Security-Policy entry of the same map embeds the same   *)
(* nonce as 'nonce-<value>' (and no other).                                *)
(***************************************************************************)
C21_NonceEcho ==
    GenReturned =>
        LET policy == ParseCsp(result.headers["Content-Security-Policy"])
            tokens == UNION {Range(e.values) : e \in Range(policy)}
            embedded == {t \in tokens : Len(t) = 3 /\ t[1] = "'nonce-" /\ t[3] = "'"}
        IN  /\ "x-nonce" \in HeaderNames <=> (nonce.given /\ nonce.s # EmptyString)
            /\ "x-nonce" \in HeaderNames =>
                  /\ result.headers["x-nonce"] = nonce.s
                  /\ embedded = {<<"'nonce-">> \o result.headers["x-nonce"] \o <<"'">>}
            /\ "x-nonce" \notin HeaderNames => embedded = {}

C21_Witness ==
    /\ GenReturned
    /\ Len(rules) = 1
    /\ result.headers["Content-Security-Policy"] = result.csp
    /\ "x-nonce" \in HeaderNames
    /\ result.headers["x-nonce"] = <<"N1">>
    /\ <<"'nonce-", "N1", "'">> \in PolicyTokens("script-src")

C21_WitnessEmpty ==
    /\ GenReturned
    /\ nonce = SomeNonce(EmptyString)
    /\ "x-nonce" \notin HeaderNames

\* the request is answered
Answered == call = "wrappedHandler" /\ pc = "done" /\ ~AppFails

(***************************************************************************)
(* C22: the response of a handler wrapped by createSecureHandler has the   *)
(* status and the body of the application handler's response and its other *)
(* headers; every header of generateSecurityHeaders is set to the          *)
(* generated value, also when the application had set that header itself;  *)
(* the application handler is called exactly once, before the headers are  *)
(* generated.                                                              *)
(***************************************************************************)
C22_ResponsePreserved ==
    /\ (call = "wrappedHandler" /\ pc # "start") =>
          /\ Len(SelectSeq(events, LAMBDA ev : ev = "handler")) = 1
          /\ Head(events) = "handler"
    /\ Answered =>
          LET securityHeaders == GenerateSecurityHeaders(rules, nonce, isDev, headerConfig)
              response == wrapped.response
          IN  /\ wrapped.state = "fulfilled"
              /\ events = <<"handler", "generateSecurityHeaders">>
              /\ response.status = app.response.status
              /\ response.body = app.response.body
              /\ \A h \in DOMAIN securityHeaders :
                    Lower(h) \in DOMAIN response.headers /\ response.headers[Lower(h)] = securityHeaders[h]
              /\ \A name \in DOMAIN app.response.headers :
                    name \notin {Lower(h) : h \in DOMAIN securityHeaders}
                        => name \in DOMAIN response.headers
                           /\ response.headers[name] = app.response.headers[name]
              /\ DOMAIN response.headers
                     = DOMAIN app.response.headers \cup {Lower(h) : h \in DOMAIN securityHeaders}

C22_Witness ==
    /\ Answered
    /\ app.response = FramedResponse
    /\ headerConfig = NoHeaderConfig
    /\ wrapped.response.status = 404
    /\ wrapped.response.headers["x-frame-options"] = <<"DENY">>
    /\ wrapped.response.headers["content-security-policy"] = result.csp

\* a rule supplies 'none' alone for directive D
OnlyNoneFor(D) ==
    \E n \in 1..Len(AllFields) : AllFields[n].key = D /\ SuppliesOnlyNone(AllFields[n])

\* the nonces the Content-Security-Policy of a header map embeds
EmbeddedNonces(headers) == NoncesIn(headers["content-security-policy"])

\* the server function has set the headers of the request at hand
HeadersSet == "setResponseHeaders" \in Range(events)

\* what the requests have in common, whatever the policy embeds
PerRequest ==
    /\ Len(generated) = Len(served) + (IF pc = "start" THEN 0 ELSE 1)
    /\ pc # "start" => nonce = SomeNonce(generated[Len(generated)])
    /\ "next" \in Range(events) =>
          /\ events = <<"nonceGenerator", "setResponseHeaders", "next">>
          /\ context = [given |-> TRUE, nonce |-> nonce.s]
          /\ EmbeddedNonces(result.headers) \subseteq {context.nonce}
    /\ \A k \in 1..Len(served) :
          (HeadersSet /\ served[k].status = "returned"
             /\ EmbeddedNonces(served[k].headers) \cap EmbeddedNonces(result.headers) # {})
              => generated[k] = generated[Len(generated)]

Entries(d, D) == IF HasKey(d, D) THEN Range(Get(d, D)) ELSE {}

\* the rule supplies 'none' alone for directive D
ResetsDirective(rule, D) ==
    \E k \in 1..Len(rule) : rule[k].key = D /\ SuppliesOnlyNone(rule[k])

\* the tokens that the rules before the n-th supplied for directive D
SuppliedBefore(n, D) ==
    UNION {Range(SuppliedTokens(rules[m][k].value)) :
              <<m, k>> \in {<<a, b>> \in (1..(n - 1)) \X (1..2) :
                               b <= Len(rules[a]) /\ rules[a][b].key = D}}

\* the keys of table d
Keys(d) == {d[n].key : n \in 1..Len(d)}

(***************************************************************************)
(* C24 as claimed: while buildCspHeader folds the rules, a token that an   *)
(* earlier rule added to a directive stays in it when a later rule is      *)
(* merged, unless that rule supplies 'none' alone for the directive.       *)
(***************************************************************************)
C24_MergeMonotone_Claimed ==
    [][BuildMergeRule =>
          \A D \in Keys(directives) :
              \/ ResetsDirective(rules[i], D)
              \/ Entries(directives, D) \cap SuppliedBefore(i, D) \subseteq Entries(directives', D)]_vars

(***************************************************************************)
(* C24 as amended: a token other than 'none' that is in a directive        *)
(* (from the baseline or from an earlier rule) stays in it when a later    *)
(* rule is merged, unless that rule supplies 'none' alone for the          *)
(* directive; 'none' itself leaves the directive only when the rule merged *)
(* supplies another token for it.                                          *)
(***************************************************************************)
C24_MergeMonotone ==
    [][BuildMergeRule =>
          \A D \in Keys(directives) :
              \/ ResetsDirective(rules[i], D)
              \/ /\ Entries(directives, D) \ {None} \subseteq Entries(directives', D)
                 /\ (None \in Entries(directives, D) /\ None \notin Entries(directives', D))
                       => \E k \in 1..Len(rules[i]) :
                              rules[i][k].key = D /\ OtherTokens(rules[i][k]) # {}]_vars

C24_Witness ==
    /\ call = "buildCspHeader"
    /\ pc = "merge"
    /\ i = 3
    /\ rules = << <<Field("frame-src", StringValue(None))>>,
                  <<Field("frame-src", StringValue(X))>> >>
    /\ Get(directives, "frame-src") = <<X>>

\* the directives that get no implicit 'self'
ValueDirectives ==
    {"report-uri", "report-to", "sandbox", "upgrade-insecure-requests",
     "block-all-mixed-content", "require-trusted-types-for", "trusted-types"}

\* the tokens the rules supply for directive D
SuppliedTo(D) ==
    UNION {Range(SuppliedTokens(FieldsNaming(D)[n].value)) : n \in 1..Len(FieldsNaming(D))}

\* the rules contribute at least one value to directive D: a token, or the
\* empty value of a boolean directive that is enabled
Contributes(D) ==
    SuppliedTo(D) # {} \/ \E n \in 1..Len(FieldsNaming(D)) : Enables(FieldsNaming(D)[n])

(***************************************************************************)
(* C25: in the policy of generateSecurityHeaders a directive that is       *)
(* absent from the baseline and to which the rules contribute a value      *)
(* holds 'self' and the rules' tokens, or only the rules' tokens when it   *)
(* is one of report-uri, report-to, sandbox, upgrade-insecure-requests,    *)
(* block-all-mixed-content, require-trusted-types-for, trusted-types; a    *)
(* directive of the baseline does not gain 'self'.                         *)
(***************************************************************************)
C25_ImplicitSelf ==
    GenReturned =>
        \A D \in NamedDirectives :
            LET base == DefaultCspDirectives(isDev, nonce)
            IN  IF HasKey(base, D)
                THEN Self \in PolicyTokens(D) => Self \in Range(Get(base, D)) \cup SuppliedTo(D)
                ELSE Contributes(D) =>
                        /\ Len(Segments(D)) = 1
                        /\ PolicyTokens(D) = SuppliedTo(D) \cup (IF D \in ValueDirectives THEN {} ELSE {Self})

C25_Witness ==
    /\ GenReturned
    /\ rules = << <<Field("script-src-elem", StringValue(X))>>,
                  <<Field("report-uri", StringValue(<<"/csp-report">>))>> >>
    /\ Segments("script-src-elem") = <<[name |-> <<"script-src-elem">>, values |-> <<Self, X>>]>>
    /\ Segments("report-uri") = <<[name |-> <<"report-uri">>, values |-> << <<"/csp-report">> >>]>>

\* the string is not empty and has no whitespace at either end
IsTrimmedToken(t) == t # <<>> /\ Head(t) # SP /\ t[Len(t)] # SP

\* the rule list with every list element trimmed
WithTrimmedLists(rs) ==
    [n \in 1..Len(rs) |->
        [k \in 1..Len(rs[n]) |->
            IF rs[n][k].value.t = "array"
            THEN Field(rs[n][k].key, ArrayValue(TrimEach(rs[n][k].value.a)))
            ELSE rs[n][k]]]

(***************************************************************************)
(* C26: every entry that the rules contribute to the directives of         *)
(* buildCspHeader is a non-empty token with no whitespace at either end,   *)
(* for string values and for list values; a list element given with        *)
(* whitespace around it contributes what its trimmed form contributes, so  *)
(* the header is the one of the rules with trimmed list elements.          *)
(***************************************************************************)
C26_ValuesNormalized ==
    BuildReturned =>
        /\ \A n \in 1..Len(directives) :
              \A k \in 1..Len(directives[n].values) : IsTrimmedToken(directives[n].values[k])
        /\ result.csp = BuildCspHeader(WithTrimmedLists(rules), nonce.s, isDev).csp

\* the directives of the baseline of buildCspHeader, in order
BaselineOrder ==
    <<"default-src", "base-uri", "child-src", "connect-src", "font-src", "form-action",
      "frame-ancestors", "frame-src", "img-src", "manifest-src", "media-src", "object-src",
      "script-src", "script-src-elem", "style-src", "style-src-elem", "style-src-attr",
      "worker-src">>

\* the directives the rules introduce, in the order of their first mention
Introduced ==
    AddAll(<<>>, [n \in 1..Len(SelectSeq(AllFields, LAMBDA f : IsDirectiveField(f)
                                                         /\ ~Includes(BaselineOrder, f.key))) |->
                     SelectSeq(AllFields, LAMBDA f : IsDirectiveField(f)
                                              /\ ~Includes(BaselineOrder, f.key))[n].key])

\* seq starts with pre
IsPrefix(pre, seq) == Len(pre) <= Len(seq) /\ SubSeq(seq, 1, Len(pre)) = pre

(***************************************************************************)
(* C27: in the header of buildCspHeader the baseline directives come       *)
(* first, in the baseline order, whatever the rules do to them (reset to   *)
(* 'none', 'none' stripped); the directives the rules introduce follow in  *)
(* the order of their first mention; and in a directive that no rule       *)
(* resets the baseline tokens that are left come before the tokens the     *)
(* rules add, in the baseline order.                                       *)
(***************************************************************************)
C27_OutputOrder ==
    BuildReturned =>
        /\ [n \in 1..Len(Policy) |-> Policy[n].name]
               = [n \in 1..Len(BaselineOrder \o Introduced) |-> <<(BaselineOrder \o Introduced)[n]>>]
        /\ \A n \in 1..Len(BaselineOrder) :
              LET D == BaselineOrder[n]
                  base == Get(BaseDirectives(nonce.s, isDev), D)
                  now == Get(directives, D)
                  left == SelectSeq(base, LAMBDA t : Includes(now, t))
              IN  ~OnlyNoneFor(D) =>
                      /\ IsPrefix(left, now)
                      /\ \A t \in Range(base) \ {None} : Includes(now, t)

C27_Witness ==
    /\ BuildReturned
    /\ isDev
    /\ rules = << <<Field("upgrade-insecure-requests", StringValue(EmptyString))>>,
                  <<Field("connect-src", StringValue(X))>> >>
    /\ Policy[4] = [name |-> <<"connect-src">>,
                    values |-> <<Self, <<"ws://localhost:*">>, <<"wss://localhost:*">>, X>>]
    /\ Len(Policy) = 19
    /\ Policy[19].name = <<"upgrade-insecure-requests">>

C27_WitnessReset ==
    /\ BuildReturned
    /\ rules = << <<Field("report-uri", StringValue(<<"/csp-report">>))>>,
                  <<Field("connect-src", StringValue(None))>> >>
    /\ Policy[4] = [name |-> <<"connect-src">>, values |-> <<None>>]
    /\ Policy[19].name = <<"report-uri">>

\* the rule list of the call followed by its last rule once more
LastRuleTwice == Append(rules, rules[Len(rules)])

(***************************************************************************)
(* C28: applying the last rule of the list a second time changes nothing:  *)
(* buildCspHeader(R ++ [r, r]) returns the string buildCspHeader(R ++ [r]) *)
(* returns (and throws when that call throws), also when r resets a        *)
(* directive to 'none' or strips a baseline 'none'.                        *)
(***************************************************************************)
C28_RuleIdempotent ==
    (call = "buildCspHeader" /\ pc \in {"done", "threw"} /\ Len(rules) >= 1) =>
        LET again == BuildCspHeader(LastRuleTwice, nonce.s, isDev)
        IN  /\ again.ok = (pc = "done")
            /\ pc = "done" => again.csp = result.csp

C28_Witness ==
    /\ BuildReturned
    /\ rules = << <<Field("frame-src", StringValue(X))>>,
                  <<Field("frame-src", StringValue(None))>> >>
    /\ Get(directives, "frame-src") = <<None>>
    /\ BuildCspHeader(LastRuleTwice, nonce.s, isDev).csp = result.csp

C28_WitnessStrip ==
    /\ BuildReturned
    /\ rules = << <<Field("frame-src", StringValue(X))>> >>
    /\ Get(directives, "frame-src") = <<X>>
    /\ BuildCspHeader(LastRuleTwice, nonce.s, isDev).csp = result.csp

(***************************************************************************)
(* C29: the nonce generateNonce returns is the base64 encoding of the 36   *)
(* bytes of the UUID string: 48 characters of the base64 alphabet, no      *)
(* padding; validateNonce returns true for it and the provider of the      *)
(* default directives logs no warning.                                     *)
(***************************************************************************)
C29_GeneratedNonceValid ==
    (call = "generateNonce" /\ pc \in {"validate", "done"}) =>
        /\ Len(uuid) = 36
        /\ Len(base64) = 48
        /\ \A k \in 1..Len(base64) : base64[k] \in Base64Chars
        /\ ValidateNonce(base64).isValid
        /\ pc = "done" => warnings = <<>>

C29_Witness ==
    /\ call = "generateNonce" /\ pc = "done"
    /\ SubSeq(uuid, 1, 3) = <<"f", "2", "3">>
    /\ SubSeq(base64, 1, 4) = <<"Z", "j", "I", "z">>
    /\ warnings = <<>>

\* the responses the wrapped handler has given so far, each with the
\* application handler's own response
Responses ==
    {[headers |-> served[k].headers, own |-> served[k].app.response.headers] :
        k \in {n \in 1..Len(served) : served[n].status = "fulfilled"}}
    \cup (IF wrapped.state = "fulfilled"
          THEN {[headers |-> wrapped.response.headers, own |-> app.response.headers]}
          ELSE {})

\* the x-nonce header of a response, if it has one
XNonce(headers) == IF "x-nonce" \in DOMAIN headers THEN {headers["x-nonce"]} ELSE {}

\* the headers of the configuration the handler was created with
ConfiguredHeaders == GenerateSecurityHeaders(rules, nonce, isDev, headerConfig)

\* C30 as stated: every response of the wrapped handler has the
\* Content-Security-Policy and the x-nonce that the captured rules and options
\* determine (no x-nonce when they hold no nonce).
C30_NoPerRequestNonce_Claimed ==
    call = "wrappedHandler" =>
        \A r \in Responses :
            /\ r.headers["content-security-policy"] = ConfiguredHeaders["Content-Security-Policy"]
            /\ XNonce(r.headers) = XNonce(ConfiguredHeaders)

(***************************************************************************)
(* C30: every response of a handler created by createSecureHandler, in any *)
(* sequence of requests, has the Content-Security-Policy that the captured *)
(* rules and options determine; when the options hold a non-empty nonce    *)
(* every response has that nonce as x-nonce, and when they hold none the   *)
(* x-nonce header is the one of the application handler's own response, if *)
(* it has one.                                                             *)
(***************************************************************************)
C30_NoPerRequestNonce ==
    call = "wrappedHandler" =>
        \A r \in Responses :
            /\ r.headers["content-security-policy"] = ConfiguredHeaders["Content-Security-Policy"]
            /\ XNonce(r.headers) = IF NonceTruthy(nonce) THEN {nonce.s} ELSE XNonce(r.own)

C30_Witness ==
    /\ call = "wrappedHandler" /\ pc = "done"
    /\ nonce = SomeNonce(N1)
    /\ Len(served) = 1
    /\ served[1].status = "fulfilled"
    /\ served[1].app.response = PlainResponse
    /\ app.response = NoncedResponse
    /\ wrapped.state = "fulfilled"
    /\ wrapped.response.headers["x-nonce"] = N1
    /\ served[1].headers["x-nonce"] = N1
    /\ served[1].headers["content-security-policy"]
           = wrapped.response.headers["content-security-policy"]

====
